---- MODULE Spec2Model ----
(* Model of run.py: copy image files and set the copies' times from the    *)
(* EXIF/QuickTime date tags.  Strings are sequences of one-character       *)
(* strings; the NUL character is written "NUL".                            *)
EXTENDS Integers, Sequences, FiniteSets, TLC

VARIABLES pc, offset_str, tz_ret, tags, localOffset, timestamp,
          inputExists, outputCreated, nfiles, idx, sessionOpen, sessionStarts,
          dest, trace, exitStatus, out

vars == <<pc, offset_str, tz_ret, tags, localOffset, timestamp,
          inputExists, outputCreated, nfiles, idx, sessionOpen, sessionStarts,
          dest, trace, exitStatus, out>>

(***************************************************************************)
(* Bounds                                                                  *)
(***************************************************************************)
MaxLen == 4
MaxFiles == 2

(***************************************************************************)
(* Characters and Python string primitives                                 *)
(***************************************************************************)
Digits == {"0", "1", "2", "3", "4", "5", "6", "7", "8", "9"}

DigitVal(c) ==
  CASE c = "0" -> 0 [] c = "1" -> 1 [] c = "2" -> 2 [] c = "3" -> 3
    [] c = "4" -> 4 [] c = "5" -> 5 [] c = "6" -> 6 [] c = "7" -> 7
    [] c = "8" -> 8 [] c = "9" -> 9

Whitespace == {" "}
NulChars == {"NUL"}

AllIn(s, S) == \A k \in 1..Len(s) : s[k] \in S

RECURSIVE LStrip(_, _)
LStrip(s, S) == IF s # <<>> /\ Head(s) \in S THEN LStrip(Tail(s), S) ELSE s

RECURSIVE RStrip(_, _)
RStrip(s, S) ==
  IF s # <<>> /\ s[Len(s)] \in S THEN RStrip(SubSeq(s, 1, Len(s) - 1), S) ELSE s

\* str.strip(chars)
Strip(s, S) == RStrip(LStrip(s, S), S)

\* s[:n] and s[n:]
Take(s, n) == SubSeq(s, 1, IF n < Len(s) THEN n ELSE Len(s))
Drop(s, n) == SubSeq(s, n + 1, Len(s))

\* position of the first occurrence of c in s, 0 if none
RECURSIVE FindFrom(_, _, _)
FindFrom(s, c, k) ==
  IF k > Len(s) THEN 0 ELSE IF s[k] = c THEN k ELSE FindFrom(s, c, k + 1)

\* str.split(sep): always at least one part
RECURSIVE Split(_, _)
Split(s, c) ==
  LET k == FindFrom(s, c, 1) IN
  IF k = 0 THEN <<s>>
  ELSE <<SubSeq(s, 1, k - 1)>> \o Split(SubSeq(s, k + 1, Len(s)), c)

(***************************************************************************)
(* Python values                                                           *)
(***************************************************************************)
None == [kind |-> "None", val |-> 0]
Raise(e) == [kind |-> e, val |-> 0]
Tz(m) == [kind |-> "tz", val |-> m]
Ts(t) == [kind |-> "ts", val |-> t]

IsNone(v) == v.kind = "None"
IsRaise(v) == v.kind \in {"ValueError", "OverflowError", "OSError"}

(***************************************************************************)
(* int(str): surrounding whitespace, one optional sign, at least one digit *)
(* The value is kept as sign and digit sequence; Scaled gives it as        *)
(* q*base + r with q saturating at SatQ, which is beyond the timedelta     *)
(* day range, so that 11-digit hour counts stay within machine integers.   *)
(***************************************************************************)
MaxDeltaDays == 999999999
SatQ == MaxDeltaDays + 1

PyInt(s) ==
  LET t == Strip(s, Whitespace)
      signed == t # <<>> /\ Head(t) \in {"+", "-"}
      ds == IF signed THEN Tail(t) ELSE t
  IN IF ds # <<>> /\ AllIn(ds, Digits)
     THEN [ok |-> TRUE, neg |-> (signed /\ Head(t) = "-"), digits |-> ds]
     ELSE [ok |-> FALSE, neg |-> FALSE, digits |-> <<>>]

RECURSIVE ScaledFrom(_, _, _, _)
ScaledFrom(ds, base, q, r) ==
  IF ds = <<>> THEN [q |-> q, r |-> r]
  ELSE LET v == r * 10 + DigitVal(Head(ds)) IN
       ScaledFrom(Tail(ds), base,
                  IF q >= SatQ \div 10 THEN SatQ ELSE q * 10 + (v \div base),
                  v % base)

Scaled(ds, base) == ScaledFrom(ds, base, 0, 0)

(***************************************************************************)
(* datetime.timezone(datetime.timedelta(hours=h, minutes=m))               *)
(* h = sh*(hq*24+hr) hours, m = sm*(mq*1440+mr) minutes.  timedelta raises *)
(* OverflowError when |days| > 999999999; timezone raises ValueError       *)
(* unless the offset is strictly between -24h and +24h.                    *)
(***************************************************************************)
MinutesPerDay == 1440

TimezoneCore(sh, hs, sm, ms) ==
  LET small == sh * hs.r * 60 + sm * ms.r
      days == sh * hs.q + sm * ms.q + (small \div MinutesPerDay)
      rem == small % MinutesPerDay
  IN IF hs.q >= SatQ \/ ms.q >= SatQ \/ days > MaxDeltaDays \/ days < -MaxDeltaDays
       THEN Raise("OverflowError")
     ELSE IF days = 0 \/ (days = -1 /\ rem > 0)
       THEN Tz(days * MinutesPerDay + rem)
     ELSE Raise("ValueError")

\* a slip that leaves the sign off the minutes
TimezoneUnsignedMinutes(sh, hs, sm, ms) == TimezoneCore(sh, hs, 1, ms)

TimezoneOf(sh, hs, sm, ms) == TimezoneCore(sh, hs, sm, ms)

(***************************************************************************)
(* parse_offset                                                            *)
(***************************************************************************)
parse_offset(s) ==
  IF s = <<>> THEN None
  ELSE
    LET stripped == Strip(Strip(s, Whitespace), NulChars) IN
    IF stripped = <<>> THEN None
    ELSE
      LET sign == IF Head(stripped) = "-" THEN -1 ELSE 1
          body == IF Head(stripped) \in {"+", "-"} THEN Tail(stripped) ELSE stripped
          parts == Split(body, ":")
          hours == PyInt(parts[1])
          minutes == IF Len(parts) > 1 THEN PyInt(parts[2])
                     ELSE [ok |-> TRUE, neg |-> FALSE, digits |-> <<"0">>]
      IN IF ~hours.ok \/ ~minutes.ok THEN None
         ELSE
           LET r == TimezoneOf(sign * (IF hours.neg THEN -1 ELSE 1),
                               Scaled(hours.digits, 24),
                               sign * (IF minutes.neg THEN -1 ELSE 1),
                               Scaled(minutes.digits, MinutesPerDay))
           IN IF r.kind = "ValueError" THEN None ELSE r

(***************************************************************************)
(* datetime.datetime.strptime(s, '%Y:%m:%d %H:%M:%S')                      *)
(* The format compiles to the regular expression                           *)
(*   \d\d\d\d:(1[0-2]|0[1-9]|[1-9]):(3[0-1]|[1-2]\d|0[1-9]|[1-9]| [1-9])   *)
(*   \s+(2[0-3]|[0-1]\d|\d):([0-5]\d|\d):(6[0-1]|[0-5]\d|\d)               *)
(* which must match the whole string; the datetime constructor then wants  *)
(* a year >= 1, a day of that month and a second <= 59.                    *)
(***************************************************************************)
RECURSIVE DecVal(_)
DecVal(ds) ==
  IF ds = <<>> THEN 0 ELSE DecVal(SubSeq(ds, 1, Len(ds) - 1)) * 10 + DigitVal(ds[Len(ds)])

\* a field of one or two digits with a value in lo..hi
Field(ds, lo, hi) ==
  /\ Len(ds) \in 1..2
  /\ AllIn(ds, Digits)
  /\ DecVal(ds) \in lo..hi

IsLeap(y) == (y % 4 = 0 /\ y % 100 # 0) \/ y % 400 = 0

DaysInMonth(y, m) ==
  IF m = 2 THEN (IF IsLeap(y) THEN 29 ELSE 28)
  ELSE IF m \in {4, 6, 9, 11} THEN 30 ELSE 31

RECURSIVE DaysBeforeMonth(_, _)
DaysBeforeMonth(y, m) ==
  IF m = 1 THEN 0 ELSE DaysBeforeMonth(y, m - 1) + DaysInMonth(y, m - 1)

LeapDaysBefore(y) == ((y - 1) \div 4) - ((y - 1) \div 100) + ((y - 1) \div 400)

EpochYear == 1970

\* seconds from 1970-01-01 00:00:00 to the given civil time, no zone applied
NaiveSeconds(y, m, d, H, M, S) ==
  LET days == (y - EpochYear) * 365 + LeapDaysBefore(y) - LeapDaysBefore(EpochYear)
              + DaysBeforeMonth(y, m) + (d - 1)
  IN days * 86400 + H * 3600 + M * 60 + S

\* the "day, whitespace, hour" stretch between the second and third colon
DayHour(mid) ==
  LET spaced == mid # <<>> /\ Head(mid) = " "
      rest == IF spaced THEN Tail(mid) ELSE mid
      k == FindFrom(rest, " ", 1)
      dd == IF k = 0 THEN <<>> ELSE SubSeq(rest, 1, k - 1)
      hh == IF k = 0 THEN <<>> ELSE LStrip(SubSeq(rest, k, Len(rest)), Whitespace)
      dok == IF spaced THEN Len(dd) = 1 /\ Field(dd, 1, 9) ELSE Field(dd, 1, 31)
  IN IF k # 0 /\ dok /\ Field(hh, 0, 23)
     THEN [ok |-> TRUE, d |-> DecVal(dd), H |-> DecVal(hh)]
     ELSE [ok |-> FALSE, d |-> 0, H |-> 0]

strptime(s) ==
  LET parts == Split(s, ":")
      bad == [ok |-> FALSE, secs |-> 0]
  IN IF Len(parts) # 5 THEN bad
     ELSE
       LET dh == DayHour(parts[3]) IN
       IF ~(/\ Len(parts[1]) = 4 /\ AllIn(parts[1], Digits)
            /\ Field(parts[2], 1, 12)
            /\ dh.ok
            /\ Field(parts[4], 0, 59)
            /\ Field(parts[5], 0, 61))
       THEN bad
       ELSE
         LET y == DecVal(parts[1])
             m == DecVal(parts[2])
             S == DecVal(parts[5])
         IN IF y < 1 \/ dh.d > DaysInMonth(y, m) \/ S > 59 THEN bad
            ELSE [ok |-> TRUE,
                  secs |-> NaiveSeconds(y, m, dh.d, dh.H, DecVal(parts[4]), S)]

(***************************************************************************)
(* get_timestamp_from_metadata                                             *)
(* tags is a function from tag names to strings; local is the machine's    *)
(* UTC offset in minutes.  The result carries the returned value (or the   *)
(* exception that leaves the function) and whether line 103 printed.       *)
(***************************************************************************)
date_candidates ==
  <<"EXIF:DateTimeOriginal", "EXIF:DateTimeDigitized",
    "QuickTime:CreationDate", "QuickTime:CreateDate">>

offset_candidates ==
  <<"EXIF:OffsetTimeOriginal", "EXIF:OffsetTimeDigitized", "EXIF:OffsetTime">>

DateLen == 19

\* lines 62-66: the first candidate that is a key of tags, 0 if none
RECURSIVE FirstPresent(_, _, _)
FirstPresent(t, cands, k) ==
  IF k > Len(cands) THEN 0
  ELSE IF cands[k] \in DOMAIN t THEN k ELSE FirstPresent(t, cands, k + 1)

\* the same scan going on to a later key when the value found does not parse
RECURSIVE FirstParseable(_, _, _)
FirstParseable(t, cands, k) ==
  IF k > Len(cands) THEN 0
  ELSE IF cands[k] \in DOMAIN t /\ strptime(Take(t[cands[k]], DateLen)).ok THEN k
  ELSE FirstParseable(t, cands, k + 1)

FindDate(t, cands, k) == FirstPresent(t, cands, k)

\* lines 72-76: tz of the first offset candidate that parses
RECURSIVE ScanOffsets(_, _)
ScanOffsets(t, k) ==
  IF k > Len(offset_candidates) THEN None
  ELSE IF offset_candidates[k] \in DOMAIN t
    THEN LET tz == parse_offset(t[offset_candidates[k]]) IN
         IF IsNone(tz) THEN ScanOffsets(t, k + 1) ELSE tz
  ELSE ScanOffsets(t, k + 1)

\* time.mktime(dt_naive.timetuple()) on a machine at a fixed UTC offset
mktime(secs, local) == secs - local * 60

\* dt_naive.replace(tzinfo=tz).timestamp()
AwareTimestamp(secs, tz) == secs - tz.val * 60

\* lines 78-104
Resolve(date_str, tz, local) ==
  LET dt_naive == strptime(Take(date_str, DateLen)) IN
  IF ~dt_naive.ok THEN [ret |-> None, printed |-> TRUE]
  ELSE IF tz.kind = "tz"
    THEN [ret |-> Ts(AwareTimestamp(dt_naive.secs, tz)), printed |-> FALSE]
  ELSE
    LET tz_embedded == IF Len(date_str) > DateLen
                       THEN parse_offset(Drop(date_str, DateLen))
                       ELSE None
    IN IF IsRaise(tz_embedded) THEN [ret |-> tz_embedded, printed |-> FALSE]
       ELSE IF tz_embedded.kind = "tz"
         THEN [ret |-> Ts(AwareTimestamp(dt_naive.secs, tz_embedded)), printed |-> FALSE]
       ELSE [ret |-> Ts(mktime(dt_naive.secs, local)), printed |-> FALSE]

get_timestamp_from_metadata(t, local) ==
  LET k == FindDate(t, date_candidates, 1)
      date_str == IF k = 0 THEN <<>> ELSE t[date_candidates[k]]
  IN IF date_str = <<>> THEN [ret |-> None, printed |-> FALSE]
     ELSE
       LET tz == ScanOffsets(t, 1) IN
       IF IsRaise(tz) THEN [ret |-> tz, printed |-> FALSE]
       ELSE Resolve(date_str, tz, local)

(***************************************************************************)
(* Inputs of parse_offset: every string of up to MaxLen characters over    *)
(* OffsetAlphabet, and a few longer ones.                                  *)
(***************************************************************************)
OffsetAlphabet == {"+", "-", ":", " ", "NUL", "a", "0", "2", "4", "9"}

RECURSIVE StringsUpTo(_, _)
StringsUpTo(A, n) ==
  IF n = 0 THEN {<<>>}
  ELSE LET S == StringsUpTo(A, n - 1) IN
       S \cup {Append(s, c) : s \in {t \in S : Len(t) = n - 1}, c \in A}

Plus0900 == <<"+", "0", "9", ":", "0", "0">>
Minus0500 == <<"-", "0", "5", ":", "0", "0">>
Plus0000 == <<"+", "0", "0", ":", "0", "0">>
Plus2359 == <<"+", "2", "3", ":", "5", "9">>
Minus2359 == <<"-", "2", "3", ":", "5", "9">>
Plus2400 == <<"+", "2", "4", ":", "0", "0">>
\* 23999999999 hours: the last hour count timedelta accepts
HoursMaxDelta == <<"+", "2", "3", "9", "9", "9", "9", "9", "9", "9", "9", "9">>
\* 24000000000 hours: the first one it rejects with OverflowError
HoursOverflow == <<"+", "2", "4", "0", "0", "0", "0", "0", "0", "0", "0", "0">>
MinusHoursOverflow == <<"-", "2", "3", "9", "9", "9", "9", "9", "9", "9", "7", "7">>
HoursNines == <<"9", "9", "9", "9", "9", "9", "9", "9", "9", "9", "9">>

LongOffsets == {Plus0900, Minus0500, Plus0000, Plus2359, Minus2359, Plus2400,
                HoursMaxDelta, HoursOverflow, MinusHoursOverflow, HoursNines}

OffsetInputs == StringsUpTo(OffsetAlphabet, MaxLen) \cup LongOffsets

(***************************************************************************)
(* Inputs of get_timestamp_from_metadata                                   *)
(***************************************************************************)
Date2023 == <<"2", "0", "2", "3", ":", "0", "5", ":", "0", "1", " ",
              "1", "0", ":", "1", "5", ":", "3", "0">>
DateEpoch == <<"1", "9", "7", "0", ":", "0", "1", ":", "0", "1", " ",
               "0", "0", ":", "0", "0", ":", "0", "0">>
DateEpoch9 == <<"1", "9", "7", "0", ":", "0", "1", ":", "0", "1", " ",
                "0", "9", ":", "0", "0", ":", "0", "0">>
Date1969 == <<"1", "9", "6", "9", ":", "1", "2", ":", "3", "1", " ",
              "2", "3", ":", "5", "9", ":", "5", "9">>
\* fields without their leading zeros: 17 characters
DateShort == <<"2", "0", "2", "3", ":", "5", ":", "1", " ",
               "1", "0", ":", "1", "5", ":", "3", "0">>
DateFeb30 == <<"2", "0", "2", "3", ":", "0", "2", ":", "3", "0", " ",
               "1", "0", ":", "1", "5", ":", "3", "0">>
DateIso == <<"2", "0", "2", "3", "-", "0", "5", "-", "0", "1", "T",
             "1", "0", ":", "1", "5", ":", "3", "0">>
NotADate == <<"n", "o", "t", "-", "a", "-", "d", "a", "t", "e">>
Garbage == <<"a">>

DateValues ==
  {Date2023, Date2023 \o Plus0900, Date2023 \o Garbage, Date2023 \o HoursOverflow,
   DateEpoch, DateEpoch9, DateEpoch9 \o Plus0900, Date1969, DateShort, DateFeb30,
   DateIso, NotADate, <<>>}

DigitizedDateValues == {Date2023, Date1969, NotADate}

QuickTimeDateValues == {Date1969, NotADate}

OffsetValues == {Plus0900, Minus0500, Plus0000, Garbage, HoursOverflow, <<>>}

DigitizedOffsetValues == {Plus0900, Minus0500, HoursOverflow}

GenericOffsetValues == {Minus0500, Garbage}

LocalOffsets == {-300, 0, 540}

AllKeys == date_candidates \o offset_candidates

ValuesOf(key) ==
  CASE key = date_candidates[1] -> DateValues
    [] key = date_candidates[2] -> DigitizedDateValues
    [] key \in {date_candidates[3], date_candidates[4]} -> QuickTimeDateValues
    [] key = offset_candidates[1] -> OffsetValues
    [] key = offset_candidates[2] -> DigitizedOffsetValues
    [] key = offset_candidates[3] -> GenericOffsetValues

NoTags == [k \in {} |-> <<>>]

Extend(t, key, v) == [k \in DOMAIN t \cup {key} |-> IF k = key THEN v ELSE t[k]]

\* every map from some of the first n keys to values of theirs
RECURSIVE TagMapsUpTo(_)
TagMapsUpTo(n) ==
  IF n = 0 THEN {NoTags}
  ELSE LET S == TagMapsUpTo(n - 1) IN
       S \cup {Extend(t, AllKeys[n], v) : t \in S, v \in ValuesOf(AllKeys[n])}

TagMaps == TagMapsUpTo(Len(AllKeys))

(***************************************************************************)
(* State outside a run of the tool                                         *)
(***************************************************************************)
IdleRun ==
  /\ inputExists = TRUE /\ outputCreated = FALSE /\ nfiles = 0 /\ idx = 0
  /\ sessionOpen = FALSE /\ sessionStarts = 0
  /\ dest = <<>> /\ trace = <<>> /\ exitStatus = -1 /\ out = <<>>

RunVars == <<inputExists, outputCreated, nfiles, idx, sessionOpen, sessionStarts,
             dest, trace, exitStatus, out>>

(***************************************************************************)
(* parse_offset called on its own                                          *)
(***************************************************************************)
InitParseOffset ==
  /\ pc = "parse_offset"
  /\ offset_str \in OffsetInputs
  /\ tz_ret = None
  /\ tags = NoTags /\ localOffset = 0 /\ timestamp = None
  /\ IdleRun

ParseOffsetCall ==
  /\ pc = "parse_offset"
  /\ tz_ret' = parse_offset(offset_str)
  /\ pc' = "returned"
  /\ UNCHANGED <<offset_str, tags, localOffset, timestamp, RunVars>>

NextParseOffset == ParseOffsetCall

SpecParseOffset == InitParseOffset /\ [][NextParseOffset]_vars

(***************************************************************************)
(* get_timestamp_from_metadata called on its own                           *)
(***************************************************************************)
InitResolve ==
  /\ pc = "get_timestamp_from_metadata"
  /\ tags \in TagMaps
  /\ localOffset \in LocalOffsets
  /\ timestamp = None
  /\ offset_str = <<>> /\ tz_ret = None
  /\ IdleRun

GetTimestampCall ==
  /\ pc = "get_timestamp_from_metadata"
  /\ LET r == get_timestamp_from_metadata(tags, localOffset) IN
       /\ timestamp' = r.ret
       /\ out' = IF r.printed THEN Append(out, [msg |-> "Error parsing date", file |-> 0])
                 ELSE out
  /\ pc' = "resolved"
  /\ UNCHANGED <<offset_str, tz_ret, tags, localOffset, inputExists, outputCreated,
                 nfiles, idx, sessionOpen, sessionStarts, dest, trace, exitStatus>>

NextResolve == GetTimestampCall

SpecResolve == InitResolve /\ [][NextResolve]_vars

(***************************************************************************)
(* The tool: __main__ and process_images                                   *)
(***************************************************************************)
Msg(m, f) == [msg |-> m, file |-> f]
\* one step taken on file f: the tag map it read or was given, the value it
\* returned or was given, and whether the metadata session was open
Step(st, f, t, r) ==
  [step |-> st, file |-> f, tags |-> t, ret |-> r, open |-> sessionOpen]

\* a destination file: None for a time still as copy2 left it
Copied == [copied |-> TRUE, mtime |-> None, btime |-> None]
NotCopied == [copied |-> FALSE, mtime |-> None, btime |-> None]

\* tag maps the metadata session hands to a run
RunTagMaps ==
  {NoTags,
   (date_candidates[1] :> Date2023) @@ (offset_candidates[1] :> Plus0900),
   (date_candidates[1] :> DateEpoch9) @@ (offset_candidates[1] :> Plus0900),
   (date_candidates[1] :> Date1969) @@ (offset_candidates[1] :> Plus0000),
   (date_candidates[1] :> NotADate),
   (date_candidates[1] :> DateShort) @@ (offset_candidates[1] :> Plus0000),
   (date_candidates[1] :> Date2023) @@ (offset_candidates[1] :> HoursOverflow),
   (date_candidates[4] :> Date2023)}

RunLocalOffsets == {0, 540}

Init ==
  /\ pc = "main"
  /\ inputExists \in BOOLEAN
  /\ localOffset \in RunLocalOffsets
  /\ outputCreated = FALSE /\ nfiles = 0 /\ idx = 0
  /\ sessionOpen = FALSE /\ sessionStarts = 0
  /\ tags = NoTags /\ timestamp = None
  /\ dest = <<>> /\ trace = <<>> /\ exitStatus = -1 /\ out = <<>>
  /\ offset_str = <<>> /\ tz_ret = None

Fixed == <<offset_str, tz_ret, localOffset, inputExists>>

\* lines 190-192
MainMissingInput ==
  /\ pc = "main" /\ ~inputExists
  /\ out' = Append(out, Msg("Input folder not found", 0))
  /\ exitStatus' = 2
  /\ pc' = "exited"
  /\ UNCHANGED <<Fixed, tags, timestamp, outputCreated, nfiles, idx, sessionOpen,
                 sessionStarts, dest, trace>>

\* process_images entered without the check of line 190
MainCallUnchecked ==
  /\ pc = "main"
  /\ pc' = "process_images"
  /\ UNCHANGED <<Fixed, tags, timestamp, outputCreated, nfiles, idx, sessionOpen,
                 sessionStarts, dest, trace, exitStatus, out>>

\* line 194
MainCallProcessImages ==
  /\ pc = "main" /\ inputExists
  /\ pc' = "process_images"
  /\ UNCHANGED <<Fixed, tags, timestamp, outputCreated, nfiles, idx, sessionOpen,
                 sessionStarts, dest, trace, exitStatus, out>>

\* lines 127-140: make the output directory if it is missing, list the files
GatherFiles ==
  /\ pc = "process_images"
  /\ \E missing \in BOOLEAN, n \in 0..MaxFiles :
       /\ outputCreated' = missing
       /\ nfiles' = n
       /\ out' = (IF missing THEN Append(out, Msg("Created output directory", 0)) ELSE out)
                 \o <<Msg("Found files. Starting ExifTool...", 0)>>
  /\ pc' = "with"
  /\ UNCHANGED <<Fixed, tags, timestamp, idx, sessionOpen, sessionStarts, dest, trace,
                 exitStatus>>

\* line 143: ExifToolHelper.__enter__
EnterSession ==
  /\ pc = "with"
  /\ sessionOpen' = TRUE
  /\ sessionStarts' = sessionStarts + 1
  /\ idx' = 1
  /\ pc' = "for"
  /\ UNCHANGED <<Fixed, tags, timestamp, outputCreated, nfiles, dest, trace,
                 exitStatus, out>>

\* lines 144-149, shutil.copy2 succeeding
CopyFile ==
  /\ pc = "for" /\ idx <= nfiles
  /\ dest' = Append(dest, Copied)
  /\ trace' = Append(trace, Step("copy", idx, NoTags, None))
  /\ out' = Append(out, Msg("Processing", idx))
  /\ pc' = "get_metadata"
  /\ UNCHANGED <<Fixed, tags, timestamp, outputCreated, nfiles, idx, sessionOpen,
                 sessionStarts, exitStatus>>

\* lines 144-149, shutil.copy2 raising: the call is outside the try of line 151
CopyFileFails ==
  /\ pc = "for" /\ idx <= nfiles
  /\ dest' = Append(dest, NotCopied)
  /\ trace' = Append(trace, Step("copy failed", idx, NoTags, None))
  /\ out' = Append(out, Msg("Processing", idx))
  /\ pc' = "raise"
  /\ UNCHANGED <<Fixed, tags, timestamp, outputCreated, nfiles, idx, sessionOpen,
                 sessionStarts, exitStatus>>

\* the same file taken up again
RetryFile ==
  /\ idx' = idx
  /\ tags' = NoTags
  /\ timestamp' = None
  /\ pc' = "for"

\* the next iteration of the loop of line 144
NextFile ==
  /\ idx' = idx + 1
  /\ tags' = NoTags
  /\ timestamp' = None
  /\ pc' = "for"

\* lines 172-173
ExceptHandler == out' = Append(out, Msg("Error processing", idx))

\* lines 155-158, 169-170
ReadMetadata ==
  /\ pc = "get_metadata"
  /\ \/ \E t \in RunTagMaps :
          /\ tags' = t
          /\ trace' = Append(trace, Step("metadata", idx, t, None))
          /\ pc' = "get_timestamp"
          /\ UNCHANGED <<timestamp, idx, out>>
     \/ /\ trace' = Append(trace, Step("metadata", idx, NoTags, None))
        /\ out' = Append(out, Msg("Could not read metadata", idx))
        /\ NextFile
     \/ /\ trace' = Append(trace, Step("metadata", idx, NoTags, None))
        /\ ExceptHandler
        /\ NextFile
  /\ UNCHANGED <<Fixed, outputCreated, nfiles, sessionOpen, sessionStarts, dest,
                 exitStatus>>

\* line 161
GetTimestamp ==
  /\ pc = "get_timestamp"
  /\ LET r == get_timestamp_from_metadata(tags, localOffset)
         o == IF r.printed THEN Append(out, Msg("Error parsing date", idx)) ELSE out
     IN /\ trace' = Append(trace, Step("timestamp", idx, tags, r.ret))
        /\ IF IsRaise(r.ret)
           THEN /\ out' = Append(o, Msg("Error processing", idx))
                /\ NextFile
           ELSE /\ timestamp' = r.ret
                /\ out' = o
                /\ pc' = "update_time"
                /\ UNCHANGED <<tags, idx>>
  /\ UNCHANGED <<Fixed, outputCreated, nfiles, sessionOpen, sessionStarts, dest,
                 exitStatus>>

\* line 164: the truth value of a float or of None
Truthy(v) == v.kind = "ts" /\ v.val # 0

\* lines 118-120: the instant written as local wall-clock time, which SetFile
\* reads as local time again
LocalWallClock(t, local) == t + local * 60
SetFileInstant(wall, local) == wall - local * 60

\* lines 106-124 applied to a destination file
set_macos_creation_time(d, t, local, utimeOk, setFile) ==
  [d EXCEPT !.mtime = IF utimeOk THEN Ts(t) ELSE @,
            !.btime = IF setFile = "ok"
                      THEN Ts(SetFileInstant(LocalWallClock(t, local), local)) ELSE @]

SetFileOutcomes == {"ok", "CalledProcessError", "FileNotFoundError", "OSError"}

\* lines 164-168
UpdateTime ==
  /\ pc = "update_time"
  /\ IF Truthy(timestamp)
     THEN \E utimeOk \in BOOLEAN, setFile \in SetFileOutcomes :
            /\ dest' = [dest EXCEPT ![idx] =
                 set_macos_creation_time(@, timestamp.val, localOffset, utimeOk, setFile)]
            /\ trace' = Append(trace, Step("set time", idx, NoTags, timestamp))
            /\ out' = (IF utimeOk THEN out
                       ELSE Append(out, Msg("Warning: Could not set modification time", idx)))
                      \o <<CASE setFile = "ok" -> Msg("Date updated", idx)
                             [] setFile = "CalledProcessError" -> Msg("Warning: SetFile failed", idx)
                             [] setFile = "FileNotFoundError" -> Msg("Warning: SetFile not found", idx)
                             [] setFile = "OSError" -> Msg("Error processing", idx)>>
                      \o (IF setFile \in {"CalledProcessError", "FileNotFoundError"}
                          THEN <<Msg("Date updated", idx)>> ELSE <<>>)
     ELSE /\ out' = Append(out, Msg("No valid EXIF dates found", idx))
          /\ UNCHANGED <<dest, trace>>
  /\ NextFile
  /\ UNCHANGED <<Fixed, outputCreated, nfiles, sessionOpen, sessionStarts, exitStatus>>

\* line 143: ExifToolHelper.__exit__ when the loop has run out of files
ExitSession ==
  /\ pc = "for" /\ idx > nfiles
  /\ sessionOpen' = FALSE
  /\ pc' = "print_done"
  /\ UNCHANGED <<Fixed, tags, timestamp, outputCreated, nfiles, idx, sessionStarts,
                 dest, trace, exitStatus, out>>

\* the exception ending the interpreter with the session left running
RaiseWithoutExit ==
  /\ pc = "raise"
  /\ exitStatus' = 1
  /\ pc' = "exited"
  /\ UNCHANGED <<Fixed, tags, timestamp, outputCreated, nfiles, idx, sessionOpen,
                 sessionStarts, dest, trace, out>>

\* line 143: ExifToolHelper.__exit__ on an exception leaving the with block,
\* which then ends the interpreter with a traceback
ExitSessionRaising ==
  /\ pc = "raise"
  /\ sessionOpen' = FALSE
  /\ exitStatus' = 1
  /\ pc' = "exited"
  /\ UNCHANGED <<Fixed, tags, timestamp, outputCreated, nfiles, idx, sessionStarts,
                 dest, trace, out>>

\* line 175
PrintDone ==
  /\ pc = "print_done"
  /\ out' = Append(out, Msg("Done.", 0))
  /\ exitStatus' = 0
  /\ pc' = "exited"
  /\ UNCHANGED <<Fixed, tags, timestamp, outputCreated, nfiles, idx, sessionOpen,
                 sessionStarts, dest, trace>>

Next ==
  \/ MainMissingInput
  \/ MainCallProcessImages
  \/ GatherFiles
  \/ EnterSession
  \/ CopyFile
  \/ CopyFileFails
  \/ ReadMetadata
  \/ GetTimestamp
  \/ UpdateTime
  \/ ExitSession
  \/ ExitSessionRaising
  \/ PrintDone

Spec == Init /\ [][Next]_vars

(***************************************************************************)
(* Properties                                                              *)
(***************************************************************************)
Steps(st, f) == {k \in 1..Len(trace) : trace[k].step = st /\ trace[k].file = f}
Printed(m, f) == \E k \in 1..Len(out) : out[k] = Msg(m, f)
RunEnded == pc = "exited" /\ inputExists

\* C1: a failure at any per-file step, copying included, is reported for that
\* file and does not abort the batch: when the run has ended every enumerated
\* file has been taken up, every failed copy and every exception out of the
\* resolver has been reported for its file, and "Done." has been printed.
C1_PerFileErrorIsolation ==
  RunEnded =>
    /\ Printed("Done.", 0)
    /\ \A f \in 1..nfiles : Steps("copy", f) \cup Steps("copy failed", f) # {}
    /\ \A f \in 1..nfiles : Steps("copy failed", f) # {} => Printed("Error processing", f)
    /\ \A k \in 1..Len(trace) :
         IsRaise(trace[k].ret) => Printed("Error processing", trace[k].file)

\* the first date candidate that is a key of the tag map, 0 if none
ChosenDateKey(t) ==
  IF \E k \in 1..Len(date_candidates) : date_candidates[k] \in DOMAIN t
  THEN CHOOSE k \in 1..Len(date_candidates) :
         /\ date_candidates[k] \in DOMAIN t
         /\ \A j \in 1..(k - 1) : date_candidates[j] \notin DOMAIN t
  ELSE 0

ChosenDate(t) == t[date_candidates[ChosenDateKey(t)]]

ParsesAsOffset(s) == parse_offset(s).kind = "tz"

\* minutes east of UTC that the precedence rule of the claim selects
ClaimedOffset(t, local) ==
  LET d == ChosenDate(t)
      good == {k \in 1..Len(offset_candidates) :
                 /\ offset_candidates[k] \in DOMAIN t
                 /\ ParsesAsOffset(t[offset_candidates[k]])}
  IN IF good # {}
       THEN parse_offset(t[offset_candidates[CHOOSE k \in good : \A j \in good : k <= j]]).val
     ELSE IF Len(d) > DateLen /\ ParsesAsOffset(Drop(d, DateLen))
       THEN parse_offset(Drop(d, DateLen)).val
     ELSE local

\* C2: when the chosen date string parses, the instant returned is the naive
\* date-time taken at the offset of the first dedicated offset tag that is
\* present and parses, else at the offset in the suffix after character 19 if
\* that parses, else at the local offset; and no error is printed.
C2_OffsetPrecedence ==
  (/\ pc = "resolved"
   /\ ChosenDateKey(tags) # 0
   /\ strptime(Take(ChosenDate(tags), DateLen)).ok)
  => /\ timestamp = Ts(strptime(Take(ChosenDate(tags), DateLen)).secs
                       - ClaimedOffset(tags, localOffset) * 60)
     /\ out = <<>>

\* the tag map without the date candidates other than its k-th
OnlyDate(t, k) ==
  [key \in {x \in DOMAIN t : \A j \in 1..Len(date_candidates) :
                               x = date_candidates[j] => j = k} |-> t[key]]

\* C3: the result is decided by the value of the first date candidate present
\* alone: it is the result for the tag map with every other date candidate
\* removed, it is no instant when that value does not parse, and it is absent
\* when no date candidate is present.
C3_DateKeyPriority ==
  pc = "resolved" =>
    LET k == ChosenDateKey(tags) IN
    IF k = 0 THEN timestamp = None
    ELSE /\ timestamp = get_timestamp_from_metadata(OnlyDate(tags, k), localOffset).ret
         /\ ~strptime(Take(ChosenDate(tags), DateLen)).ok => timestamp.kind # "ts"

\* an unparseable first date with a parseable later one, and no instant
C3_Witness ==
  /\ pc = "resolved"
  /\ date_candidates[1] \in DOMAIN tags /\ tags[date_candidates[1]] = NotADate
  /\ date_candidates[2] \in DOMAIN tags /\ tags[date_candidates[2]] = Date2023
  /\ timestamp = None

\* the string as parse_offset sees it: whitespace stripped, then NULs
Trimmed(s) == Strip(Strip(s, Whitespace), NulChars)

Unsigned(s) == IF s # <<>> /\ Head(s) \in {"+", "-"} THEN Tail(s) ELSE s

\* [sign]hours[:minutes], hours and minutes strings of decimal digits
HasOffsetForm(s) ==
  LET parts == Split(Unsigned(s), ":") IN
  /\ Len(parts) \in 1..2
  /\ \A k \in 1..Len(parts) : parts[k] # <<>> /\ AllIn(parts[k], Digits)

\* the value of a digit string, capped: no offset reaches the cap
ValueCap == MinutesPerDay * 100
CappedVal(ds) ==
  LET sig == LStrip(ds, {"0"}) IN IF Len(sig) > 5 THEN ValueCap ELSE DecVal(sig)

FormSign(s) == IF s # <<>> /\ Head(s) = "-" THEN -1 ELSE 1

\* sign*hours hours and sign*minutes minutes, in minutes
FormMinutes(s) ==
  LET parts == Split(Unsigned(s), ":")
      hours == CappedVal(parts[1])
      minutes == IF Len(parts) > 1 THEN CappedVal(parts[2]) ELSE 0
  IN FormSign(s) * hours * 60 + FormSign(s) * minutes

\* C4 as stated: every string of the form [sign]hours[:minutes] yields the
\* fixed offset of sign*hours hours and sign*minutes minutes.
C4_ExactSignedOffset ==
  (pc = "returned" /\ HasOffsetForm(Trimmed(offset_str)))
  => tz_ret = Tz(FormMinutes(Trimmed(offset_str)))

\* C4 amended: a string of the form [sign]hours[:minutes] yields the fixed
\* offset of sign*hours hours and sign*minutes minutes when that offset lies
\* strictly between -24 and +24 hours, and yields no offset otherwise.
C4_ExactSignedOffsetInRange ==
  (pc = "returned" /\ HasOffsetForm(Trimmed(offset_str)))
  => LET m == FormMinutes(Trimmed(offset_str)) IN
     IF -MinutesPerDay < m /\ m < MinutesPerDay
     THEN tz_ret = Tz(m)
     ELSE tz_ret.kind # "tz"

\* a negative offset with minutes, parsed
C4_Witness ==
  /\ pc = "returned"
  /\ HasOffsetForm(Trimmed(offset_str))
  /\ FormSign(Trimmed(offset_str)) = -1
  /\ Len(Split(Trimmed(offset_str), ":")) = 2
  /\ tz_ret.kind = "tz" /\ tz_ret.val < 0 /\ tz_ret.val % 60 # 0

\* C5: parse_offset returns an offset or absent for every input; no exception
\* leaves it.
C5_ParseOffsetTotal ==
  pc = "returned" => tz_ret.kind \in {"tz", "None"}

\* YYYY:MM:DD HH:MM:SS: 19 characters, zero-padded fields, a real date-time
StrictDateTime(s) ==
  /\ Len(s) = DateLen
  /\ \A k \in 1..DateLen :
       IF k \in {5, 8, 14, 17} THEN s[k] = ":"
       ELSE IF k = 11 THEN s[k] = " " ELSE s[k] \in Digits
  /\ LET y == DecVal(SubSeq(s, 1, 4))
         m == DecVal(SubSeq(s, 6, 7))
         d == DecVal(SubSeq(s, 9, 10))
     IN /\ y >= 1 /\ m \in 1..12 /\ d \in 1..DaysInMonth(y, m)
        /\ DecVal(SubSeq(s, 12, 13)) <= 23
        /\ DecVal(SubSeq(s, 15, 16)) <= 59
        /\ DecVal(SubSeq(s, 18, 19)) <= 59

\* C6: when the first 19 characters of the chosen date string are no
\* YYYY:MM:DD HH:MM:SS date-time, the resolver returns absent, no exception
\* leaves it, and the time setter is not invoked for that file.
C6_UnparseableDateAbsent ==
  \A k \in 1..Len(trace) :
    (/\ trace[k].step = "timestamp"
     /\ ChosenDateKey(trace[k].tags) # 0
     /\ ~StrictDateTime(Take(ChosenDate(trace[k].tags), DateLen)))
    => /\ trace[k].ret = None
       /\ Steps("set time", trace[k].file) = {}

\* C7: a missing input directory ends the run with status 2 before anything
\* else is done: nothing but the message is printed, no output directory is
\* made, no session is started, no file is copied; and status 2 means that.
C7_MissingInputExits2 ==
  /\ ~inputExists => pc \in {"main", "exited"}
  /\ (pc = "exited" /\ ~inputExists) =>
       /\ exitStatus = 2
       /\ out = <<Msg("Input folder not found", 0)>>
       /\ ~outputCreated /\ sessionStarts = 0 /\ ~sessionOpen
       /\ dest = <<>> /\ trace = <<>>
  /\ exitStatus = 2 => ~inputExists

C7_Witness == pc = "exited" /\ ~inputExists /\ exitStatus = 2

\* the step that may follow step a on the same file
FollowsInFile(a, b) ==
  \/ a = "copy" /\ b = "metadata"
  \/ a = "metadata" /\ b = "timestamp"
  \/ a = "timestamp" /\ b = "set time"

\* C8: the steps of a file come in the order copy, metadata read, timestamp
\* resolution, time setting, each at most once; the steps of file f+1 start
\* only after the last step of file f; and a time is set only on a
\* destination that has been copied.
C8_StepOrder ==
  /\ trace # <<>> => trace[1].file = 1 /\ trace[1].step \in {"copy", "copy failed"}
  /\ \A k \in 1..(Len(trace) - 1) :
       \/ /\ trace[k + 1].file = trace[k].file
          /\ FollowsInFile(trace[k].step, trace[k + 1].step)
       \/ /\ trace[k + 1].file = trace[k].file + 1
          /\ trace[k].step \notin {"copy", "copy failed"}
          /\ trace[k + 1].step \in {"copy", "copy failed"}
  /\ \A k \in 1..Len(trace) :
       trace[k].step = "set time" =>
         /\ dest[trace[k].file].copied
         /\ \E j \in 1..(k - 1) : trace[j].step = "copy" /\ trace[j].file = trace[k].file
  /\ \A f \in 1..Len(dest) :
       (dest[f].mtime # None \/ dest[f].btime # None) => Steps("set time", f) # {}

\* two files, the first with all four steps
C8_Witness ==
  /\ Len(trace) >= 5
  /\ trace[4].step = "set time" /\ trace[4].file = 1
  /\ trace[5].step = "copy" /\ trace[5].file = 2

C10_AppliedIffInstant ==
  \A k \in 1..Len(trace) :
    (trace[k].step = "timestamp" /\ (trace[k].file < idx \/ pc = "exited")) =>
      LET f == trace[k].file IN
      /\ trace[k].ret.kind = "ts" =>
           \E j \in Steps("set time", f) : trace[j].ret = trace[k].ret
      /\ trace[k].ret.kind # "ts" =>
           /\ Steps("set time", f) = {}
           /\ dest[f].mtime = None /\ dest[f].btime = None

====
